---- MODULE Spec2Model ----
(***************************************************************************)
(* Object Tagger (Blender add-on): tags are boolean custom properties on   *)
(* scene objects.  The model covers the tag store helpers, the aggregate   *)
(* ALL/SOME status, toggle/add/remove, select-by-tag in its five modes and *)
(* the pie-menu configuration list of tagger_ui_addon.py.                  *)
(*                                                                         *)
(* Python strings are modelled as sequences of one-character strings, so   *)
(* that strip/replace/startswith/slicing/sorting are computed, not assumed.*)
(* An object's custom properties are a function from keys to values; a     *)
(* value is a record [type, val] (bool True is [bool,1], int 1 is [int,1]).*)
(***************************************************************************)
EXTENDS Integers, Sequences, FiniteSets, TLC

(* ---------------------------------------------------------------------- *)
(* Bounds of the model                                                     *)
(* ---------------------------------------------------------------------- *)
\* Objects in the file are 1..NumObjects.
NumObjects == 2
\* Number of distinct tags present in the file in the pie-configuration runs.
NumFileTags == 9
MaxLen == 3
\* Number of pie-configuration operations explored from each initial list.
MaxOps == 3

(* ---------------------------------------------------------------------- *)
(* Program constants                                                       *)
(* ---------------------------------------------------------------------- *)
TAG_PREFIX == <<"t", "a", "g", "_">>
PieCapacity == 8

relevant_types == {"MESH", "EMPTY", "CURVE", "SURFACE", "META", "FONT",
                   "ARMATURE", "LATTICE", "LIGHT", "CAMERA", "SPEAKER",
                   "LIGHT_PROBE", "GPENCIL"}

(* ---------------------------------------------------------------------- *)
(* The host document                                                       *)
(* ---------------------------------------------------------------------- *)
Objects == 1..NumObjects
None == 0

\* bpy.types.Object.type: every third object is a volume, which is selectable
\* but is not one of the relevant types.
ObjType(o) == IF o % 3 = 0 THEN "VOLUME" ELSE "MESH"

BoolTrue  == [type |-> "bool",  val |-> 1]
BoolFalse == [type |-> "bool",  val |-> 0]
IntZero   == [type |-> "int",   val |-> 0]
IntOne    == [type |-> "int",   val |-> 1]
IntTwo    == [type |-> "int",   val |-> 2]
FloatOne  == [type |-> "float", val |-> 1]

\* isinstance(v, int): bool is a subclass of int in Python.
IsInstanceInt(v) == v.type \in {"int", "bool"}
IsInstanceBool(v) == v.type = "bool"

EmptyProps == [k \in {} |-> BoolTrue]

(* ---------------------------------------------------------------------- *)
(* Strings                                                                 *)
(* ---------------------------------------------------------------------- *)
\* Code points of the characters the model uses.
CharCode(c) ==
    CASE c = "\t" -> 9
      [] c = " "  -> 32
      [] c = "A"  -> 65
      [] c = "_"  -> 95
      [] c = "a"  -> 97
      [] c = "b"  -> 98
      [] c = "c"  -> 99
      [] c = "d"  -> 100
      [] c = "e"  -> 101
      [] c = "f"  -> 102
      [] c = "g"  -> 103
      [] c = "h"  -> 104
      [] c = "i"  -> 105
      [] c = "j"  -> 106
      [] c = "k"  -> 107
      [] c = "l"  -> 108
      [] OTHER    -> 120

IsWhitespace(c) == c \in {" ", "\t"}

RECURSIVE lstrip(_)
lstrip(s) ==
    IF s = <<>> THEN s
    ELSE IF IsWhitespace(Head(s)) THEN lstrip(Tail(s)) ELSE s

RECURSIVE rstrip(_)
rstrip(s) ==
    IF s = <<>> THEN s
    ELSE IF IsWhitespace(s[Len(s)]) THEN rstrip(SubSeq(s, 1, Len(s) - 1)) ELSE s

\* str.strip()
strip(s) == rstrip(lstrip(s))

\* Mutant: the two arguments of replace are swapped.
replace_space_swapped(s) == [i \in 1..Len(s) |-> IF s[i] = "_" THEN " " ELSE s[i]]

\* str.replace(" ", "_")
replace_space(s) == [i \in 1..Len(s) |-> IF s[i] = " " THEN "_" ELSE s[i]]

\* str.startswith(p)
startswith(s, p) == Len(s) >= Len(p) /\ SubSeq(s, 1, Len(p)) = p

\* s[n:]
slice_from(s, n) == SubSeq(s, n + 1, Len(s))

\* str.lower()
lower(s) == [i \in 1..Len(s) |-> IF s[i] = "A" THEN "a" ELSE s[i]]

\* f in s
contains(s, f) == \E i \in 1..(Len(s) - Len(f) + 1) : SubSeq(s, i, i + Len(f) - 1) = f

\* s < t in Python's string order
RECURSIVE StrLess(_, _)
StrLess(s, t) ==
    IF t = <<>> THEN FALSE
    ELSE IF s = <<>> THEN TRUE
    ELSE IF CharCode(Head(s)) # CharCode(Head(t))
         THEN CharCode(Head(s)) < CharCode(Head(t))
         ELSE StrLess(Tail(s), Tail(t))

\* sorted(list(S)) for a set of strings
RECURSIVE sorted(_)
sorted(S) ==
    IF S = {} THEN <<>>
    ELSE LET m == CHOOSE x \in S : \A y \in S \ {x} : StrLess(x, y)
         IN <<m>> \o sorted(S \ {m})

(* ---------------------------------------------------------------------- *)
(* State                                                                   *)
(* ---------------------------------------------------------------------- *)
VARIABLES
    props,                            \* obj.keys() / obj[k] of every object
    selected,                         \* objects with select_get() true
    active,                           \* view_layer.objects.active
    new_tag_name,                     \* scene_props.new_tag_name
    selected_object_tags,             \* scene_props.selected_object_tags (names)
    available_tags_in_file,           \* scene_props.available_tags_in_file
    available_tags_filter,            \* scene_props.available_tags_filter
    pie_config_available_tags,        \* scene_props.pie_config_available_tags
    pie_config_available_tags_index,  \* scene_props.pie_config_available_tags_index
    pie_config_filter,                \* scene_props.pie_config_filter
    pie_menu_tags,                    \* scene_props.pie_menu_tags (names)
    active_pie_tag_index,             \* scene_props.active_pie_tag_index
    last_active_object,               \* the module's global last_active_object
    notify_pending,                   \* msgbus: LayerObjects.active was published
    redraw_requested,                 \* area.tag_redraw() was called
    last,                             \* the last operator run: inputs, result, what it saw
    nops                              \* pie-configuration operations run so far

vars == <<props, selected, active, new_tag_name, selected_object_tags,
          available_tags_in_file, available_tags_filter,
          pie_config_available_tags, pie_config_available_tags_index,
          pie_config_filter, pie_menu_tags, active_pie_tag_index,
          last_active_object, notify_pending, redraw_requested, last, nops>>

tagVars == <<props, selected, active, new_tag_name, selected_object_tags,
             available_tags_in_file, pie_config_available_tags>>
obsVars == <<last_active_object, notify_pending, redraw_requested>>
pieVars == <<pie_config_available_tags_index, pie_config_filter, pie_menu_tags,
             active_pie_tag_index, available_tags_filter, nops, obsVars>>

(* ---------------------------------------------------------------------- *)
(* Helper functions                                                        *)
(* ---------------------------------------------------------------------- *)
\* context.selected_objects, in the order of the file's objects
selected_objects(sel) ==
    LET RECURSIVE upto(_)
        upto(n) == IF n = 0 THEN <<>>
                   ELSE IF n \in sel THEN Append(upto(n - 1), n) ELSE upto(n - 1)
    IN upto(NumObjects)

get_target_objects(sel) == {o \in sel : ObjType(o) \in relevant_types}

\* Mutant: the scan takes every key with the prefix, whatever its value.
file_tags_of_any_value(p) ==
    {slice_from(k, Len(TAG_PREFIX)) : k \in {k \in DOMAIN p : startswith(k, TAG_PREFIX)}}

\* lines 44-57: the scan of one object's keys in get_all_tags_in_file
file_tags_of(p) ==
    {slice_from(k, Len(TAG_PREFIX)) :
        k \in {k \in DOMAIN p :
                 /\ ~(k = <<"_", "R", "N", "A", "_", "U", "I">>
                      \/ startswith(k, <<"c", "y", "c", "l", "e", "s">>)
                      \/ startswith(k, <<"c", "y", "c", "l", "e", "s", "_">>))
                 /\ startswith(k, TAG_PREFIX)
                 /\ \/ IsInstanceInt(p[k]) /\ p[k].val = 1
                    \/ IsInstanceBool(p[k]) /\ p[k].val = 1}}

get_all_tags_in_file(P) == sorted(UNION {file_tags_of(P[o]) : o \in Objects})

\* lines 82-100: current_obj_tags of one object
current_obj_tags(p) ==
    {slice_from(k, Len(TAG_PREFIX)) :
        k \in {k \in DOMAIN p :
                 /\ startswith(k, TAG_PREFIX)
                 /\ \/ IsInstanceInt(p[k]) /\ p[k].val = 1
                    \/ IsInstanceBool(p[k]) /\ p[k].val = 1
                 /\ slice_from(k, Len(TAG_PREFIX)) # <<>>}}

\* lines 80-101: object_tags_list, one tag set per target object
object_tags_list(P, objs) == [o \in objs |-> current_obj_tags(P[o])]

\* set.union(*object_tags_list)
all_selected_tags(otl) == UNION {otl[o] : o \in DOMAIN otl}

\* Mutant: keeps the tags some object lacks.
set_intersection_lacking(otl) ==
    {t \in all_selected_tags(otl) : \E o \in DOMAIN otl : t \notin otl[o]}

\* set.intersection(*object_tags_list)
set_intersection(otl) ==
    {t \in all_selected_tags(otl) : \A o \in DOMAIN otl : t \in otl[o]}

\* line 114: sum(1 for obj_tags in object_tags_list if tag in obj_tags)
tag_count(otl, tag) == Cardinality({o \in DOMAIN otl : tag \in otl[o]})

\* Mutant: the count is never compared with the number of objects.
status_of_any(count, n) == IF count > 0 THEN "ALL" ELSE "NONE"

\* lines 115-118: the status given to one tag of all_selected_tags
status_of(count, n) ==
    IF count = n THEN "ALL" ELSE IF count > 0 THEN "SOME" ELSE "NONE"

\* tags_status of get_tags_on_selected_objects
tags_status(P, sel) ==
    LET target_objects == get_target_objects(sel)
        otl == object_tags_list(P, target_objects)
        st == [t \in all_selected_tags(otl) |->
                  status_of(tag_count(otl, t), Cardinality(target_objects))]
    IN IF target_objects = {} THEN [t \in {} |-> "NONE"]
       ELSE [t \in {t \in DOMAIN st : st[t] # "NONE"} |-> st[t]]

\* common_tags of get_tags_on_selected_objects
common_tags(P, sel) ==
    LET target_objects == get_target_objects(sel)
    IN IF target_objects = {} THEN {}
       ELSE set_intersection(object_tags_list(P, target_objects))

\* Mutant: spaces are replaced without stripping first.
sanitize_no_strip(tag_name) == replace_space(tag_name)

sanitize(tag_name) == replace_space(strip(tag_name))

full_tag_name(sanitized_tag_name) == TAG_PREFIX \o sanitized_tag_name

set_key(p, k, v) == [x \in DOMAIN p \cup {k} |-> IF x = k THEN v ELSE p[x]]

\* Mutant: removal keeps the key and stores False under it.
del_key_stores_false(p, k) ==
    [x \in DOMAIN p |-> IF x = k THEN BoolFalse ELSE p[x]]

\* del obj[k], reached only when k is in obj
del_key(p, k) == [x \in DOMAIN p \ {k} |-> p[x]]

add_tag_to_objects(P, objs, tag_name) ==
    IF tag_name = <<>> THEN P
    ELSE IF sanitize(tag_name) = <<>> THEN P
    ELSE [o \in Objects |->
            IF o \in objs THEN set_key(P[o], full_tag_name(sanitize(tag_name)), BoolTrue)
            ELSE P[o]]

remove_tag_from_objects(P, objs, tag_name) ==
    IF tag_name = <<>> THEN P
    ELSE IF sanitize(tag_name) = <<>> THEN P
    ELSE [o \in Objects |->
            IF o \in objs THEN del_key(P[o], full_tag_name(sanitize(tag_name)))
            ELSE P[o]]

\* Mutant: all() in place of any().
any_has_tag_all(P, objs, k) ==
    \A o \in objs :
        /\ k \in DOMAIN P[o]
        /\ \/ IsInstanceInt(P[o][k]) /\ P[o][k].val = 1
           \/ IsInstanceBool(P[o][k]) /\ P[o][k].val = 1

\* lines 164-166
any_has_tag(P, objs, k) ==
    \E o \in objs :
        /\ k \in DOMAIN P[o]
        /\ \/ IsInstanceInt(P[o][k]) /\ P[o][k].val = 1
           \/ IsInstanceBool(P[o][k]) /\ P[o][k].val = 1

\* Mutant: deletes the key only where its value is true.
toggle_remove_only_true(P, objs, k) ==
    [o \in Objects |->
        IF o \in objs /\ k \in DOMAIN P[o] /\ P[o][k] \in {BoolTrue, IntOne}
        THEN del_key(P[o], k) ELSE P[o]]

\* lines 168-171
toggle_remove(P, objs, k) ==
    [o \in Objects |-> IF o \in objs THEN del_key(P[o], k) ELSE P[o]]

\* lines 172-174
toggle_add(P, objs, k) ==
    [o \in Objects |-> IF o \in objs THEN set_key(P[o], k, BoolTrue) ELSE P[o]]

toggle_tag_on_objects(P, objs, tag_name) ==
    IF tag_name = <<>> \/ objs = {} THEN P
    ELSE IF sanitize(tag_name) = <<>> THEN P
    ELSE LET k == full_tag_name(sanitize(tag_name))
         IN IF any_has_tag(P, objs, k) THEN toggle_remove(P, objs, k)
            ELSE toggle_add(P, objs, k)

\* TTAGS_OT_UpdateSelectedObjectTagsList._update_logic
UpdatedSelectedObjectTags(P, sel) == sorted(DOMAIN tags_status(P, sel))

filtered(names, filter) ==
    LET keep(n) == lower(filter) = <<>> \/ contains(lower(n), lower(filter))
    IN SelectSeq(names, keep)

\* TTAGS_OT_UpdateAvailableTagsList._update_logic
UpdatedAvailableTags(P, filter) == filtered(get_all_tags_in_file(P), filter)

\* TTAGS_OT_UpdatePieConfigAvailableTagsList._update_logic
UpdatedPieConfigAvailableTags(P, filter) == filtered(get_all_tags_in_file(P), filter)


(* ---------------------------------------------------------------------- *)
(* Select by tag                                                           *)
(* ---------------------------------------------------------------------- *)
Modes == {"SET", "ADD", "SUBTRACT", "FILTER_AND", "FILTER_NAND"}

\* Mutant: the key's presence alone counts.
has_tag_key_only(p, k) == k \in DOMAIN p

\* lines 455-456 (repeated at 463-464, 470-471, 477-478)
has_tag(p, k) ==
    /\ k \in DOMAIN p
    /\ \/ IsInstanceInt(p[k]) /\ p[k].val = 1
       \/ IsInstanceBool(p[k]) /\ p[k].val = 1

\* Mutant: the selection is never cleared.
after_select_all_never(mode, sel) == sel

\* bpy.ops.object.select_all(action='DESELECT'), run for mode SET only.  Every
\* object of the file is taken to be in the view layer, visible and selectable,
\* so that select_all and select_set act on all of bpy.data.objects.
after_select_all(mode, sel) == IF mode = "SET" THEN {} ELSE sel

\* lines 453-459: modes SET and ADD scan every object of the file
changes_set_add(mode, k, P, cur) ==
    {<<o, TRUE>> : o \in {o \in Objects :
        /\ has_tag(P[o], k)
        /\ (mode = "SET" \/ (mode = "ADD" /\ o \notin cur))}}

\* Mutant: the test is inverted.
changes_subtract_inverted(k, P, initial_selection) ==
    {<<o, FALSE>> : o \in {o \in initial_selection : ~has_tag(P[o], k)}}

\* lines 461-466
changes_subtract(k, P, initial_selection) ==
    {<<o, FALSE>> : o \in {o \in initial_selection : has_tag(P[o], k)}}

\* Mutant: the "not" is missing.
changes_filter_and_no_not(k, P, initial_selection) ==
    {<<o, FALSE>> : o \in {o \in initial_selection : has_tag(P[o], k)}}

\* lines 468-473
changes_filter_and(k, P, initial_selection) ==
    {<<o, FALSE>> : o \in {o \in initial_selection : ~has_tag(P[o], k)}}

\* Mutant: the FILTER_AND branch pasted unchanged.
changes_filter_nand_pasted(k, P, initial_selection) ==
    {<<o, FALSE>> : o \in {o \in initial_selection : ~has_tag(P[o], k)}}

\* lines 475-480
changes_filter_nand(k, P, initial_selection) ==
    {<<o, FALSE>> : o \in {o \in initial_selection : has_tag(P[o], k)}}

\* lines 451-480: the pairs (object, should_be_selected)
objects_to_change_selection_state(mode, k, P, initial_selection, cur) ==
    CASE mode \in {"SET", "ADD"} -> changes_set_add(mode, k, P, cur)
      [] mode = "SUBTRACT"      -> changes_subtract(k, P, initial_selection)
      [] mode = "FILTER_AND"    -> changes_filter_and(k, P, initial_selection)
      [] mode = "FILTER_NAND"   -> changes_filter_nand(k, P, initial_selection)

\* lines 483-484: obj.select_set(select_state) for every pair
apply_select_set(sel, changes) ==
    (sel \cup {o \in Objects : <<o, TRUE>> \in changes})
        \ {o \in Objects : <<o, FALSE>> \in changes}

\* the selection TTAGS_OT_SelectByTag.execute leaves, from selection sel
selection_after(mode, tag_name, P, sel) ==
    LET cur == after_select_all(mode, sel)
    IN apply_select_set(cur,
          objects_to_change_selection_state(mode, TAG_PREFIX \o tag_name, P, sel, cur))

\* Mutant: an active object outside the selection is kept.
active_after_kept(sel, act) == IF sel # {} THEN act ELSE None

\* lines 486-490
active_after(sel, act) ==
    IF sel # {}
    THEN IF act \notin sel THEN selected_objects(sel)[1] ELSE act
    ELSE None

(* ---------------------------------------------------------------------- *)
(* What the last operator saw (history, read by the properties only)       *)
(* ---------------------------------------------------------------------- *)
\* has_tag of the specification: the key is present with boolean True or integer 1
HasTag(p, k) == k \in DOMAIN p /\ p[k] \in {BoolTrue, IntOne}

Having(P, k) == {o \in Objects : HasTag(P[o], k)}

\* op/mode/result/report: the operator, its mode and how it ended.  For a
\* toggle: key it addressed, objects it was given, the ones that had the tag
\* before it (had); twice says the operator before it was a toggle of the same
\* key on the same objects, and had0 is what that one saw before it.  For a
\* select-by-tag: objects is the selection it started from.  For a move-pie-tag:
\* moved says it called CollectionProperty.move.
NoLast ==
    [op |-> "none", mode |-> "NONE", result |-> "NONE", report |-> "NONE",
     key |-> <<>>, objects |-> {}, had |-> {}, twice |-> FALSE, had0 |-> {},
     moved |-> FALSE]

Ran(op, mode, result, report) ==
    [NoLast EXCEPT !.op = op, !.mode = mode, !.result = result, !.report = report]

(* ---------------------------------------------------------------------- *)
(* Inputs                                                                  *)
(* ---------------------------------------------------------------------- *)
\* Tag names a user or a caller passes: empty, blank, plain, padded, with an
\* interior space, and already canonical.
RawNames ==
    { <<>>, <<" ">>, <<"a">>, <<" ", "a", "\t">>, <<"a", " ", "b">>,
      <<"a", "_", "b">> }

K_a   == TAG_PREFIX \o <<"a">>
K_a_b == TAG_PREFIX \o <<"a", "_", "b">>

\* A new file: no custom properties at all.
DocEmpty == [o \in Objects |-> EmptyProps]

\* A file with properties written by other tools and older versions: integer
\* booleans, a false value, the integers 0 and 2, a float, a render-engine
\* property, a tagged volume.
DocLegacy ==
    [o \in Objects |->
        CASE o % 3 = 1 -> (K_a :> IntOne) @@ (K_a_b :> IntZero)
          [] o % 3 = 2 -> (K_a :> BoolFalse) @@ (K_a_b :> IntTwo)
                             @@ (<<"c", "y", "c", "l", "e", "s">> :> IntOne)
          [] OTHER     -> (K_a :> BoolTrue) @@ (K_a_b :> FloatOne)]

(* ---------------------------------------------------------------------- *)
(* Tagging and selection operators                                         *)
(* ---------------------------------------------------------------------- *)
RefreshAll(P, sel) ==
    /\ selected_object_tags' = UpdatedSelectedObjectTags(P, sel)
    /\ available_tags_in_file' = UpdatedAvailableTags(P, available_tags_filter)
    /\ pie_config_available_tags' = UpdatedPieConfigAvailableTags(P, pie_config_filter)

\* The user clicks an object in the viewport: its selection state flips, and an
\* object that becomes selected becomes the active one.
HostSelect(o) ==
    /\ selected' = IF o \in selected THEN selected \ {o} ELSE selected \cup {o}
    /\ active' = IF o \in selected THEN active ELSE o
    /\ last' = Ran("host_select", "NONE", "NONE", "NONE")
    /\ UNCHANGED <<props, new_tag_name, selected_object_tags, available_tags_in_file,
                   pie_config_available_tags>>
    /\ UNCHANGED pieVars

\* The user types raw into the "New Tag" field (scene_props.new_tag_name) and
\* presses "Add to Selection".
AddTagToSelection(raw) ==
    LET new_tag_raw == strip(raw)
        new_tag_sanitized == replace_space(new_tag_raw)
        target_objects == get_target_objects(selected)
        P == add_tag_to_objects(props, target_objects, new_tag_sanitized)
    IN \* poll
       /\ target_objects # {} /\ strip(raw) # <<>>
       /\ IF new_tag_raw = <<>> \/ new_tag_sanitized = <<>> \/ target_objects = {}
          THEN /\ new_tag_name' = raw
               /\ last' = Ran("add", "NONE", "CANCELLED", "WARNING")
               /\ UNCHANGED <<props, selected, active, selected_object_tags,
                              available_tags_in_file, pie_config_available_tags>>
          ELSE /\ props' = P
               /\ RefreshAll(P, selected)
               /\ new_tag_name' = <<>>
               /\ last' = Ran("add", "NONE", "FINISHED", "INFO")
               /\ UNCHANGED <<selected, active>>
       /\ UNCHANGED pieVars

ToggleTagOnSelection(tag_name) ==
    LET target_objects == get_target_objects(selected)
        P == toggle_tag_on_objects(props, target_objects, tag_name)
        k == full_tag_name(sanitize(tag_name))
        again == /\ last.op = "toggle" /\ last.result = "FINISHED"
                 /\ last.key = k
                 /\ last.objects = target_objects
    IN \* poll
       /\ target_objects # {}
       /\ IF target_objects = {} \/ tag_name = <<>>
          THEN /\ last' = Ran("toggle", "NONE", "CANCELLED", "WARNING")
               /\ UNCHANGED tagVars
          ELSE /\ props' = P
               /\ RefreshAll(P, selected)
               /\ last' = [Ran("toggle", "NONE", "FINISHED", "NONE")
                             EXCEPT !.key = k,
                                    !.objects = target_objects,
                                    !.had = Having(props, k) \cap target_objects,
                                    !.twice = again,
                                    !.had0 = IF again THEN last.had ELSE {}]
               /\ UNCHANGED <<selected, active, new_tag_name>>
       /\ UNCHANGED pieVars

RemoveTagFromSelection(tag_name) ==
    LET target_objects == get_target_objects(selected)
        P == remove_tag_from_objects(props, target_objects, tag_name)
    IN \* poll
       /\ target_objects # {}
       /\ IF target_objects = {} \/ tag_name = <<>>
          THEN /\ last' = Ran("remove", "NONE", "CANCELLED", "WARNING")
               /\ UNCHANGED tagVars
          ELSE /\ props' = P
               /\ RefreshAll(P, selected)
               /\ last' = Ran("remove", "NONE", "FINISHED", "INFO")
               /\ UNCHANGED <<selected, active, new_tag_name>>
       /\ UNCHANGED pieVars

SelectByTag(tag_name, mode) ==
    /\ IF tag_name = <<>>
       THEN /\ last' = Ran("select", "NONE", "CANCELLED", "WARNING")
            /\ UNCHANGED tagVars
       ELSE /\ selected' = selection_after(mode, tag_name, props, selected)
            /\ active' = active_after(selected', active)
            /\ selected_object_tags' = UpdatedSelectedObjectTags(props, selected')
            /\ last' = [Ran("select", mode, "FINISHED", "INFO")
                          EXCEPT !.objects = selected]
            /\ UNCHANGED <<props, new_tag_name, available_tags_in_file,
                           pie_config_available_tags>>
    /\ UNCHANGED pieVars

UpdateAllLists ==
    /\ RefreshAll(props, selected)
    /\ last' = Ran("update_all_lists", "NONE", "FINISHED", "NONE")
    /\ UNCHANGED <<props, selected, active, new_tag_name>>
    /\ UNCHANGED pieVars

Init ==
    /\ props \in {DocEmpty, DocLegacy}
    /\ selected = {}
    /\ active = None
    /\ new_tag_name = <<>>
    /\ selected_object_tags = <<>>
    /\ available_tags_in_file = <<>>
    /\ available_tags_filter = <<>>
    /\ pie_config_available_tags = <<>>
    /\ pie_config_available_tags_index = 0
    /\ pie_config_filter = <<>>
    /\ pie_menu_tags = <<>>
    /\ active_pie_tag_index = 0
    /\ last = NoLast
    /\ nops = 0
    /\ last_active_object = None
    /\ notify_pending = FALSE
    /\ redraw_requested = FALSE

Next ==
    \/ \E o \in Objects : HostSelect(o)
    \/ \E raw \in RawNames : AddTagToSelection(raw)
    \/ \E t \in RawNames : ToggleTagOnSelection(t)
    \/ \E t \in RawNames : RemoveTagFromSelection(t)
    \/ \E t \in RawNames, m \in Modes : SelectByTag(t, m)
    \/ UpdateAllLists

Spec == Init /\ [][Next]_vars

(* ---------------------------------------------------------------------- *)
(* Pie-menu configuration                                                  *)
(* ---------------------------------------------------------------------- *)
\* CollectionProperty.remove(i)
collection_remove(seq, i) ==
    IF 0 <= i /\ i < Len(seq)
    THEN SubSeq(seq, 1, i) \o SubSeq(seq, i + 2, Len(seq))
    ELSE seq

\* Mutant: the item taken out is put back at the end of the collection.
collection_move_to_end(seq, from, to) ==
    IF 0 <= from /\ from < Len(seq) /\ 0 <= to /\ to < Len(seq)
    THEN collection_remove(seq, from) \o <<seq[from + 1]>>
    ELSE seq

\* CollectionProperty.move(from, to): the item at from is taken out and put
\* back at to; nothing happens when an index is outside the collection.
collection_move(seq, from, to) ==
    IF 0 <= from /\ from < Len(seq) /\ 0 <= to /\ to < Len(seq)
    THEN LET rest == collection_remove(seq, from)
         IN SubSeq(rest, 1, to) \o <<seq[from + 1]>> \o SubSeq(rest, to + 1, Len(rest))
    ELSE seq

\* Mutant: only the first entry of the pie list is compared.
already_in_pie_first_only(tag_to_add) ==
    pie_menu_tags # <<>> /\ pie_menu_tags[1] = tag_to_add

\* line 521
already_in_pie(tag_to_add) == \E i \in 1..Len(pie_menu_tags) : pie_menu_tags[i] = tag_to_add

\* Mutant: the capacity test is off by one.
pie_is_full_off_by_one == Len(pie_menu_tags) > PieCapacity

\* line 525
pie_is_full == Len(pie_menu_tags) >= PieCapacity

\* The file of the pie-configuration runs: object 1 carries NumFileTags tags.
Letters == <<"a", "b", "c", "d", "e", "f", "g", "h", "i", "j", "k", "l">>
FileTags == {<<Letters[i]>> : i \in 1..NumFileTags}
DocPie ==
    [o \in Objects |->
        IF o = 1 THEN [k \in {full_tag_name(t) : t \in FileTags} |-> BoolTrue]
        ELSE EmptyProps]

\* Search texts typed into "Search All Tags".
PieFilters == {<<>>, <<"A">>, <<"b">>}

\* The user clicks a row of the "Available" list.
SetPieConfigAvailableTagsIndex(i) ==
    /\ nops < MaxOps
    /\ 0 <= i /\ i < Len(pie_config_available_tags)
    /\ pie_config_available_tags_index' = i
    /\ nops' = nops + 1
    /\ UNCHANGED obsVars
    /\ last' = Ran("click_available", "NONE", "NONE", "NONE")
    /\ UNCHANGED <<pie_config_filter, pie_menu_tags, active_pie_tag_index,
                   available_tags_filter>>
    /\ UNCHANGED tagVars

\* The user clicks a row of the "In Pie Menu" list.
SetActivePieTagIndex(i) ==
    /\ nops < MaxOps
    /\ 0 <= i /\ i < Len(pie_menu_tags)
    /\ active_pie_tag_index' = i
    /\ nops' = nops + 1
    /\ UNCHANGED obsVars
    /\ last' = Ran("click_pie", "NONE", "NONE", "NONE")
    /\ UNCHANGED <<pie_config_available_tags_index, pie_config_filter, pie_menu_tags,
                   available_tags_filter>>
    /\ UNCHANGED tagVars

\* The user edits "Search All Tags": the property's update callback rebuilds
\* the "Available" list.
SetPieConfigFilter(f) ==
    /\ nops < MaxOps
    /\ pie_config_filter' = f
    /\ pie_config_available_tags' = UpdatedPieConfigAvailableTags(props, f)
    /\ nops' = nops + 1
    /\ UNCHANGED obsVars
    /\ last' = Ran("set_pie_filter", "NONE", "FINISHED", "NONE")
    /\ UNCHANGED <<pie_config_available_tags_index, pie_menu_tags, active_pie_tag_index,
                   available_tags_filter>>
    /\ UNCHANGED <<props, selected, active, new_tag_name, selected_object_tags,
                   available_tags_in_file>>

\* The refresh button of the panel header, in the pie-configuration runs.
PieUpdateAllLists ==
    /\ nops < MaxOps
    /\ RefreshAll(props, selected)
    /\ nops' = nops + 1
    /\ UNCHANGED obsVars
    /\ last' = Ran("update_all_lists", "NONE", "FINISHED", "NONE")
    /\ UNCHANGED <<props, selected, active, new_tag_name>>
    /\ UNCHANGED <<pie_config_available_tags_index, pie_config_filter, pie_menu_tags,
                   active_pie_tag_index, available_tags_filter>>

\* lines 505-508
AddTagToPieConfigPoll ==
    /\ pie_config_available_tags_index >= 0
    /\ Len(pie_config_available_tags) > pie_config_available_tags_index

\* The operator is invoked.  The host calls poll first and runs execute only
\* when poll returned True; otherwise nothing runs and nothing is reported.
AddTagToPieConfig ==
    LET source_list == pie_config_available_tags
        source_index == pie_config_available_tags_index
        tag_to_add == source_list[source_index + 1]
    IN /\ nops < MaxOps
       /\ IF ~AddTagToPieConfigPoll
          THEN /\ last' = Ran("add_to_pie", "NONE", "POLL_FAILED", "NONE")
               /\ UNCHANGED pie_menu_tags
          ELSE IF ~(0 <= source_index /\ source_index < Len(source_list))
          THEN /\ last' = Ran("add_to_pie", "NONE", "CANCELLED", "WARNING")
               /\ UNCHANGED pie_menu_tags
          ELSE IF already_in_pie(tag_to_add)
          THEN /\ last' = Ran("add_to_pie", "NONE", "CANCELLED", "INFO")
               /\ UNCHANGED pie_menu_tags
          ELSE IF pie_is_full
          THEN /\ last' = Ran("add_to_pie", "NONE", "CANCELLED", "WARNING")
               /\ UNCHANGED pie_menu_tags
          ELSE /\ pie_menu_tags' = Append(pie_menu_tags, tag_to_add)
               /\ last' = Ran("add_to_pie", "NONE", "FINISHED", "INFO")
       /\ nops' = nops + 1
       /\ UNCHANGED obsVars
       /\ UNCHANGED <<pie_config_available_tags_index, pie_config_filter,
                      active_pie_tag_index, available_tags_filter>>
       /\ UNCHANGED tagVars

\* Mutant: the active index is left where it was.
active_index_after_remove_kept(idx, pie_tags) == idx

\* lines 559-562: pie_tags is the list after the removal
active_index_after_remove(idx, pie_tags) ==
    IF idx >= Len(pie_tags) /\ Len(pie_tags) > 0
    THEN Len(pie_tags) - 1
    ELSE IF pie_tags = <<>> THEN 0
    ELSE idx

\* lines 543-546
RemoveTagFromPieConfigPoll ==
    active_pie_tag_index >= 0 /\ Len(pie_menu_tags) > active_pie_tag_index

RemoveTagFromPieConfig ==
    LET target_index == active_pie_tag_index
        removed == collection_remove(pie_menu_tags, target_index)
    IN /\ nops < MaxOps
       /\ IF ~RemoveTagFromPieConfigPoll
          THEN /\ last' = Ran("remove_from_pie", "NONE", "POLL_FAILED", "NONE")
               /\ UNCHANGED <<pie_menu_tags, active_pie_tag_index>>
          ELSE IF ~(0 <= target_index /\ target_index < Len(pie_menu_tags))
          THEN /\ last' = Ran("remove_from_pie", "NONE", "CANCELLED", "WARNING")
               /\ UNCHANGED <<pie_menu_tags, active_pie_tag_index>>
          ELSE /\ pie_menu_tags' = removed
               /\ active_pie_tag_index' =
                    active_index_after_remove(active_pie_tag_index, removed)
               /\ last' = Ran("remove_from_pie", "NONE", "FINISHED", "INFO")
       /\ nops' = nops + 1
       /\ UNCHANGED obsVars
       /\ UNCHANGED <<pie_config_available_tags_index, pie_config_filter,
                      available_tags_filter>>
       /\ UNCHANGED tagVars

\* Mutant: poll tests only that the active index is not negative.
MovePieTagPoll_no_length == 0 <= active_pie_tag_index

\* lines 586-587 of poll: the active index is inside the list.  The two tests
\* on cls.direction read the class, not the operator instance that carries the
\* pressed button's direction, so they do not guard execute.
MovePieTagPoll ==
    0 <= active_pie_tag_index /\ active_pie_tag_index < Len(pie_menu_tags)

\* line 601
can_move_up(idx) == idx > 0

\* Mutant: the last row passes the test of line 605.
can_move_down_off_by_one(idx, pie_tags) == idx < Len(pie_tags)

\* line 605
can_move_down(idx, pie_tags) == idx < Len(pie_tags) - 1

MovePieTag(direction) ==
    LET idx == active_pie_tag_index
        pie_tags == pie_menu_tags
        moves == IF direction = "UP" THEN can_move_up(idx)
                 ELSE can_move_down(idx, pie_tags)
    IN /\ nops < MaxOps
       /\ IF ~MovePieTagPoll
          THEN /\ last' = Ran("move_pie_tag", direction, "POLL_FAILED", "NONE")
               /\ UNCHANGED <<pie_menu_tags, active_pie_tag_index>>
          ELSE /\ IF direction = "UP"
                  THEN IF can_move_up(idx)
                       THEN /\ pie_menu_tags' = collection_move(pie_tags, idx, idx - 1)
                            /\ active_pie_tag_index' = active_pie_tag_index - 1
                       ELSE UNCHANGED <<pie_menu_tags, active_pie_tag_index>>
                  ELSE IF can_move_down(idx, pie_tags)
                       THEN /\ pie_menu_tags' = collection_move(pie_tags, idx, idx + 1)
                            /\ active_pie_tag_index' = active_pie_tag_index + 1
                       ELSE UNCHANGED <<pie_menu_tags, active_pie_tag_index>>
               /\ last' = [Ran("move_pie_tag", direction, "FINISHED", "NONE")
                             EXCEPT !.moved = moves]
       /\ nops' = nops + 1
       /\ UNCHANGED obsVars
       /\ UNCHANGED <<pie_config_available_tags_index, pie_config_filter,
                      available_tags_filter>>
       /\ UNCHANGED tagVars

\* The pie list after the first n tags of the file were added in order: 0 is
\* the state right after the add-on is enabled (lists not yet filled); for
\* n > 0 the lists were refreshed and rows 0..n-1 clicked and added in turn.
InitPie ==
    \E n \in 0..(IF NumFileTags < PieCapacity THEN NumFileTags ELSE PieCapacity) :
        /\ props = DocPie
        /\ selected = {}
        /\ active = None
        /\ new_tag_name = <<>>
        /\ selected_object_tags = <<>>
        /\ available_tags_filter = <<>>
        /\ pie_config_filter = <<>>
        /\ available_tags_in_file = IF n = 0 THEN <<>> ELSE get_all_tags_in_file(DocPie)
        /\ pie_config_available_tags = IF n = 0 THEN <<>> ELSE get_all_tags_in_file(DocPie)
        /\ pie_config_available_tags_index = IF n = 0 THEN 0 ELSE n - 1
        /\ pie_menu_tags = SubSeq(get_all_tags_in_file(DocPie), 1, n)
        /\ active_pie_tag_index = 0
        /\ last = IF n = 0 THEN NoLast ELSE Ran("add_to_pie", "NONE", "FINISHED", "INFO")
        /\ nops = 0
        /\ last_active_object = None
        /\ notify_pending = FALSE
        /\ redraw_requested = FALSE

NextPie ==
    \/ \E i \in 0..(NumFileTags - 1) : SetPieConfigAvailableTagsIndex(i)
    \/ \E i \in 0..(PieCapacity - 1) : SetActivePieTagIndex(i)
    \/ \E f \in PieFilters : SetPieConfigFilter(f)
    \/ PieUpdateAllLists
    \/ AddTagToPieConfig
    \/ RemoveTagFromPieConfig
    \/ \E d \in {"UP", "DOWN"} : MovePieTag(d)

SpecPie == InitPie /\ [][NextPie]_vars

(* ---------------------------------------------------------------------- *)
(* The three helpers called directly                                       *)
(* ---------------------------------------------------------------------- *)
\* Characters of the names a caller passes: a space, a tab, a letter and the
\* underscore; Names are all texts of up to MaxLen of them.
Chars == {" ", "\t", "a", "_"}
Names == UNION {[1..n -> Chars] : n \in 0..MaxLen}

\* A caller passes the text held in new_tag_name and a list of objects to one
\* of the helpers.  Each helper ends by falling off its end or by a bare
\* return (None); none of them has a raise statement.
CallAddTag(objects) ==
    /\ props' = add_tag_to_objects(props, objects, new_tag_name)
    /\ last' = [Ran("call_add", "NONE", "RETURN_NONE", "NONE") EXCEPT !.objects = objects]
    /\ UNCHANGED <<selected, active, new_tag_name, selected_object_tags,
                   available_tags_in_file, pie_config_available_tags>>
    /\ UNCHANGED pieVars

CallRemoveTag(objects) ==
    /\ props' = remove_tag_from_objects(props, objects, new_tag_name)
    /\ last' = [Ran("call_remove", "NONE", "RETURN_NONE", "NONE") EXCEPT !.objects = objects]
    /\ UNCHANGED <<selected, active, new_tag_name, selected_object_tags,
                   available_tags_in_file, pie_config_available_tags>>
    /\ UNCHANGED pieVars

CallToggleTag(objects) ==
    /\ props' = toggle_tag_on_objects(props, objects, new_tag_name)
    /\ last' = [Ran("call_toggle", "NONE", "RETURN_NONE", "NONE") EXCEPT !.objects = objects]
    /\ UNCHANGED <<selected, active, new_tag_name, selected_object_tags,
                   available_tags_in_file, pie_config_available_tags>>
    /\ UNCHANGED pieVars

InitHelpers ==
    /\ props \in {DocEmpty, DocLegacy}
    /\ new_tag_name \in Names
    /\ selected = {}
    /\ active = None
    /\ selected_object_tags = <<>>
    /\ available_tags_in_file = <<>>
    /\ available_tags_filter = <<>>
    /\ pie_config_available_tags = <<>>
    /\ pie_config_available_tags_index = 0
    /\ pie_config_filter = <<>>
    /\ pie_menu_tags = <<>>
    /\ active_pie_tag_index = 0
    /\ last = NoLast
    /\ nops = 0
    /\ last_active_object = None
    /\ notify_pending = FALSE
    /\ redraw_requested = FALSE

NextHelpers ==
    \/ \E objects \in SUBSET Objects : CallAddTag(objects)
    \/ \E objects \in SUBSET Objects : CallRemoveTag(objects)
    \/ \E objects \in SUBSET Objects : CallToggleTag(objects)

SpecHelpers == InitHelpers /\ [][NextHelpers]_vars

(* ---------------------------------------------------------------------- *)
(* The active-object observer                                              *)
(* ---------------------------------------------------------------------- *)
\* A local name that has no value yet.
Unbound == "UNBOUND"

\* The user clicks an object in the viewport, as in HostSelect; when the click
\* changes view_layer.objects.active the message bus marks the subscription
\* made at lines 975-982 for notification.
ObservedHostSelect(o) ==
    /\ selected' = IF o \in selected THEN selected \ {o} ELSE selected \cup {o}
    /\ active' = IF o \in selected THEN active ELSE o
    /\ notify_pending' = (notify_pending \/ active' # active)
    /\ last' = Ran("host_select", "NONE", "NONE", "NONE")
    /\ UNCHANGED <<props, new_tag_name, selected_object_tags, available_tags_in_file,
                   pie_config_available_tags>>
    /\ UNCHANGED <<pie_config_available_tags_index, pie_config_filter, pie_menu_tags,
                   active_pie_tag_index, available_tags_filter, nops>>
    /\ UNCHANGED <<last_active_object, redraw_requested>>

\* Select-by-tag, as in SelectByTag; lines 486-490 may change the active
\* object, which the message bus then publishes.
ObservedSelectByTag(tag_name, mode) ==
    /\ tag_name # <<>>
    /\ selected' = selection_after(mode, tag_name, props, selected)
    /\ active' = active_after(selected', active)
    /\ selected_object_tags' = UpdatedSelectedObjectTags(props, selected')
    /\ notify_pending' = (notify_pending \/ active' # active)
    /\ last' = [Ran("select", mode, "FINISHED", "INFO") EXCEPT !.objects = selected]
    /\ UNCHANGED <<props, new_tag_name, available_tags_in_file, pie_config_available_tags>>
    /\ UNCHANGED <<pie_config_available_tags_index, pie_config_filter, pie_menu_tags,
                   active_pie_tag_index, available_tags_filter, nops>>
    /\ UNCHANGED <<last_active_object, redraw_requested>>

\* The message bus calls the handler.  Line 966 assigns last_active_object and
\* the function has no global statement, so inside the function the name is a
\* local, unbound on entry; line 963 reads it.  The global of line 23 is
\* neither read nor written.  Line 971 reads the name a, which is defined
\* nowhere.  The host prints the exception of a handler and goes on.
msgbus_activelayer_observer ==
    LET obj == active
        local_last_active_object == Unbound
    IN /\ notify_pending
       /\ notify_pending' = FALSE
       /\ IF local_last_active_object = Unbound
          THEN last' = Ran("observer", "NONE", "RAISED", "UnboundLocalError")
          ELSE IF ~(local_last_active_object # obj /\ obj = obj)
          THEN last' = Ran("observer", "NONE", "RETURNED", "NONE")
          ELSE last' = Ran("observer", "NONE", "RAISED", "NameError")
       /\ UNCHANGED <<last_active_object, redraw_requested>>
       /\ UNCHANGED tagVars
       /\ UNCHANGED <<pie_config_available_tags_index, pie_config_filter, pie_menu_tags,
                      active_pie_tag_index, available_tags_filter, nops>>

NextObserver ==
    \/ \E o \in Objects : ObservedHostSelect(o)
    \/ \E t \in RawNames, m \in Modes : ObservedSelectByTag(t, m)
    \/ msgbus_activelayer_observer

SpecObserver == Init /\ [][NextObserver]_vars

(* ---------------------------------------------------------------------- *)
(* Properties of the tagging and selection operators (under Spec)          *)
(* ---------------------------------------------------------------------- *)
Toggled == last.op = "toggle" /\ last.result = "FINISHED" /\ last.key # TAG_PREFIX

\* Tag names the properties range over: every canonical name an operator can
\* store, and one that nothing carries.
TagNames == ({sanitize(r) : r \in RawNames} \ {<<>>}) \cup {<<"b">>}

\* C1: after toggle on a non-empty object list with a non-blank tag, if some
\* object of the list had the tag (True or 1) no object of the list carries the
\* key any more, and otherwise every object of the list has the tag.
C1_ToggleAllOrNothing ==
    Toggled =>
        IF last.had # {}
        THEN \A o \in last.objects : last.key \notin DOMAIN props[o]
        ELSE \A o \in last.objects : HasTag(props[o], last.key)

\* A toggle of a mixed list: one object had the tag, another did not.
C1_Witness ==
    /\ Toggled
    /\ last.had # {} /\ last.had # last.objects
    /\ \A o \in last.objects : last.key \notin DOMAIN props[o]

\* C2: over the N target objects a tag is ALL iff exactly N of them have it,
\* SOME iff the number having it is strictly between 0 and N, and has no entry
\* when no object has it; with no target object the mapping is empty.
C2_StatusCounts ==
    LET T  == get_target_objects(selected)
        N  == Cardinality(T)
        st == tags_status(props, selected)
        count(t) == Cardinality({o \in T : HasTag(props[o], TAG_PREFIX \o t)})
    IN /\ DOMAIN st \subseteq TagNames
       /\ N = 0 => DOMAIN st = {}
       /\ N > 0 => \A t \in TagNames :
            /\ (t \in DOMAIN st /\ st[t] = "ALL") <=> count(t) = N
            /\ (t \in DOMAIN st /\ st[t] = "SOME") <=> (0 < count(t) /\ count(t) < N)
            /\ t \notin DOMAIN st <=> count(t) = 0

\* The list was just rebuilt from a status with an ALL tag and a SOME tag.
C2_Witness ==
    LET st == tags_status(props, selected)
    IN /\ last.op \in {"toggle", "add", "remove", "update_all_lists"}
       /\ last.result = "FINISHED"
       /\ selected_object_tags = sorted(DOMAIN st)
       /\ \E t1, t2 \in DOMAIN st : st[t1] = "ALL" /\ st[t2] = "SOME"

\* C3: for a non-empty collection of target objects the keys of the status
\* mapping include common_tags, and every key mapped to ALL is in common_tags.
C3_CommonWithinStatus ==
    LET st == tags_status(props, selected)
        common == common_tags(props, selected)
    IN get_target_objects(selected) # {} =>
        /\ common \subseteq DOMAIN st
        /\ \A t \in DOMAIN st : st[t] = "ALL" => t \in common

\* Two target objects share one tag and differ on another.
C3_Witness ==
    LET st == tags_status(props, selected)
        common == common_tags(props, selected)
    IN /\ Cardinality(get_target_objects(selected)) >= 2
       /\ common # {}
       /\ DOMAIN st \ common # {}

\* C4: select-by-tag SET leaves exactly the objects of the file that have the
\* tag selected, whatever was selected before.
C4_SelectSet ==
    [][last'.mode = "SET" => \A t \in RawNames \ {<<>>} :
          SelectByTag(t, "SET") => selected' = Having(props, TAG_PREFIX \o t)]_vars

\* SET selected a tagged object and deselected an object of the old selection.
C4_Witness ==
    /\ last.op = "select" /\ last.mode = "SET" /\ last.result = "FINISHED"
    /\ selected # {}
    /\ last.objects \ selected # {}

\* C5: select-by-tag ADD leaves the previous selection united with the objects
\* of the file that have the tag.
C5_SelectAdd ==
    [][last'.mode = "ADD" => \A t \in RawNames \ {<<>>} :
          SelectByTag(t, "ADD") =>
              selected' = selected \cup Having(props, TAG_PREFIX \o t)]_vars

\* ADD kept a non-empty selection and added an object to it.
C5_Witness ==
    /\ last.op = "select" /\ last.mode = "ADD" /\ last.result = "FINISHED"
    /\ last.objects # {}
    /\ last.objects \subseteq selected
    /\ selected \ last.objects # {}

\* C6: select-by-tag SUBTRACT leaves the previous selection minus its objects
\* that have the tag; nothing becomes selected.
C6_SelectSubtract ==
    [][last'.mode = "SUBTRACT" => \A t \in RawNames \ {<<>>} :
          SelectByTag(t, "SUBTRACT") =>
              /\ selected' = selected \ {o \in selected : HasTag(props[o], TAG_PREFIX \o t)}
              /\ selected' \subseteq selected]_vars

\* SUBTRACT removed an object and kept another.
C6_Witness ==
    /\ last.op = "select" /\ last.mode = "SUBTRACT" /\ last.result = "FINISHED"
    /\ selected # {}
    /\ selected \subseteq last.objects
    /\ last.objects \ selected # {}

\* C7: select-by-tag FILTER_AND leaves exactly the previously selected objects
\* that have the tag; tagged objects that were not selected stay unselected.
C7_SelectFilterAnd ==
    [][last'.mode = "FILTER_AND" => \A t \in RawNames \ {<<>>} :
          SelectByTag(t, "FILTER_AND") =>
              /\ selected' = {o \in selected : HasTag(props[o], TAG_PREFIX \o t)}
              /\ (Having(props, TAG_PREFIX \o t) \ selected) \cap selected' = {}]_vars

\* FILTER_AND kept an object of the old selection and dropped another.
C7_Witness ==
    /\ last.op = "select" /\ last.mode = "FILTER_AND" /\ last.result = "FINISHED"
    /\ selected # {}
    /\ last.objects \ selected # {}
    /\ selected \subseteq last.objects

\* C8: from one starting selection S and one tag, the result of FILTER_AND and
\* the result of FILTER_NAND are disjoint and their union is S; FILTER_NAND
\* keeps exactly the members of S without the tag.
C8_FilterPartition ==
    [][last'.mode \in {"FILTER_AND", "FILTER_NAND"} => \A t \in RawNames \ {<<>>} :
          /\ SelectByTag(t, "FILTER_AND") =>
                LET nand == selection_after("FILTER_NAND", t, props, selected)
                IN /\ selected' \cap nand = {}
                   /\ selected' \cup nand = selected
                   /\ nand = {o \in selected : ~HasTag(props[o], TAG_PREFIX \o t)}
          /\ SelectByTag(t, "FILTER_NAND") =>
                LET and == selection_after("FILTER_AND", t, props, selected)
                IN /\ selected' \cap and = {}
                   /\ selected' \cup and = selected
                   /\ selected' = {o \in selected : ~HasTag(props[o], TAG_PREFIX \o t)}]_vars

\* FILTER_NAND kept an untagged object and dropped a tagged one.
C8_Witness ==
    /\ last.op = "select" /\ last.mode = "FILTER_NAND" /\ last.result = "FINISHED"
    /\ selected # {}
    /\ last.objects \ selected # {}
    /\ selected \subseteq last.objects

\* C9: a second toggle of the same tag on the same objects, right after the
\* first, restores each object's has_tag status when the status before the
\* first was uniform; when it was mixed the first toggle cleared the tag from
\* all and the second set it on all, which differs from the start.
C9_ToggleTwice ==
    (Toggled /\ last.twice) =>
        LET objs == last.objects
            h0 == last.had0
            h1 == last.had
            h2 == Having(props, last.key) \cap objs
        IN IF h0 = {} \/ h0 = objs
           THEN h2 = h0
           ELSE h1 = {} /\ h2 = objs /\ h2 # h0

\* Two toggles in a row from a mixed state.
C9_Witness ==
    /\ Toggled /\ last.twice
    /\ last.had0 # {} /\ last.had0 # last.objects

\* Every tag key present on any object holds True or 1.
AllTagKeysTrue(P) ==
    \A o \in Objects : \A k \in DOMAIN P[o] :
        startswith(k, TAG_PREFIX) => P[o][k] \in {BoolTrue, IntOne}

\* C14: a step of add-tag, remove-tag or toggle taken where every tag key
\* present holds a true value leads to a state where every tag key present
\* holds a true value; a value a step stores under a key is True, never False;
\* and a remove-tag step stores nothing: the one key it takes away is deleted
\* from every target object, and every key left keeps its value.
C14_TagValuesStayTrue ==
    [][props' # props =>
          /\ AllTagKeysTrue(props) => AllTagKeysTrue(props')
          /\ \A o \in Objects : \A k \in DOMAIN props'[o] :
                 (k \notin DOMAIN props[o] \/ props[o][k] # props'[o][k]) =>
                     props'[o][k] = BoolTrue
          /\ last'.op = "remove" =>
                LET gone == UNION {DOMAIN props[o] \ DOMAIN props'[o] : o \in Objects}
                IN /\ Cardinality(gone) = 1
                   /\ \A k \in gone : \A o \in get_target_objects(selected) :
                         k \notin DOMAIN props'[o]
                   /\ \A o \in Objects : \A k \in DOMAIN props'[o] :
                         k \in DOMAIN props[o] /\ props'[o][k] = props[o][k]]_vars

\* In a file that started without properties (so every state before this one
\* had only true tag values) a remove-tag deleted a key from the selected
\* objects while a tag key is still stored.
C14_Witness ==
    /\ \A o \in Objects : <<"c", "y", "c", "l", "e", "s">> \notin DOMAIN props[o]
    /\ last.op = "remove" /\ last.result = "FINISHED"
    /\ \E o \in Objects : K_a \in DOMAIN props[o]
    /\ \E o \in selected : K_a \notin DOMAIN props[o] /\ K_a_b \in DOMAIN props[o]
    /\ AllTagKeysTrue(props)

\* C16: add-tag, toggle-tag, remove-tag and select-by-tag run with a tag name
\* that is empty or only whitespace end CANCELLED with a warning, never
\* FINISHED.
C16_BlankNameRejected ==
    [][last'.op \in {"add", "toggle", "remove", "select"} =>
          \A t \in RawNames : strip(t) = <<>> =>
              ((\/ AddTagToSelection(t)
                \/ ToggleTagOnSelection(t)
                \/ RemoveTagFromSelection(t)
                \/ \E m \in Modes : SelectByTag(t, m)) =>
                    /\ last'.result = "CANCELLED"
                    /\ last'.report = "WARNING")]_vars

\* C18: after a select-by-tag that ran (any mode), the active object is one of
\* the selected objects when some object is selected, and there is no active
\* object when none is selected.
C18_ActiveInSelection ==
    (last.op = "select" /\ last.result = "FINISHED") =>
        IF selected # {} THEN active \in selected ELSE active = None

\* SET replaced a selection by objects that were not in it, so the active
\* object had to move.
C18_Witness ==
    /\ last.op = "select" /\ last.mode = "SET" /\ last.result = "FINISHED"
    /\ last.objects # {} /\ selected # {}
    /\ last.objects \cap selected = {}
    /\ active \in selected

\* C19: an object has tag t iff its key for t is present with the value True
\* or the integer 1.  The status computation, toggle's any-object-has-it test,
\* select-by-tag and the scan of the file all decide by that rule, so a key
\* with another value (False, 0, 2, 1.0) counts as not tagged for all four;
\* and the lists the operators rebuild show exactly the tags so decided.
C19_OneHasTagRule ==
    \A t \in TagNames :
        LET k == TAG_PREFIX \o t
            Rule(o) == k \in DOMAIN props[o] /\ props[o][k] \in {BoolTrue, IntOne}
            shown(list) == \E i \in 1..Len(list) : list[i] = t
        IN /\ \A o \in Objects :
                /\ t \in current_obj_tags(props[o]) <=> Rule(o)
                /\ has_tag(props[o], k) <=> Rule(o)
                /\ t \in file_tags_of(props[o]) <=> Rule(o)
           /\ \A objects \in SUBSET Objects :
                any_has_tag(props, objects, k) <=> \E o \in objects : Rule(o)
           /\ t \in DOMAIN tags_status(props, selected)
                <=> \E o \in get_target_objects(selected) : Rule(o)
           /\ shown(get_all_tags_in_file(props)) <=> \E o \in Objects : Rule(o)
           /\ (last.op \in {"add", "toggle", "remove", "update_all_lists"}
                  /\ last.result = "FINISHED") =>
                /\ shown(available_tags_in_file) <=> \E o \in Objects : Rule(o)
                /\ shown(selected_object_tags)
                     <=> \E o \in get_target_objects(selected) : Rule(o)

\* The lists were rebuilt while the selected objects hold 1, 0, False and 2
\* under tag keys: only the tag stored as 1 is shown.
C19_Witness ==
    /\ last.op = "update_all_lists"
    /\ selected = {1, 2}
    /\ \A o \in {1, 2} : {K_a, K_a_b} \subseteq DOMAIN props[o]
    /\ props[1][K_a] = IntOne /\ props[1][K_a_b] = IntZero
    /\ props[2][K_a] = BoolFalse /\ props[2][K_a_b] = IntTwo
    /\ selected_object_tags = <<<<"a">>>>
    /\ available_tags_in_file = <<<<"a">>>>

(* ---------------------------------------------------------------------- *)
(* Properties of the pie-menu configuration (under SpecPie)                *)
(* ---------------------------------------------------------------------- *)
\* C10: whatever add-to-pie, remove-from-pie and move-pie-tag operations ran,
\* pie_menu_tags holds at most 8 entries and no tag name twice.
C10_PieBoundedNoDuplicates ==
    /\ Len(pie_menu_tags) <= 8
    /\ \A i, j \in 1..Len(pie_menu_tags) : pie_menu_tags[i] = pie_menu_tags[j] => i = j

\* Add-to-pie was refused for a tag that is not in the full list of 8.
C10_Witness ==
    /\ last.op = "add_to_pie" /\ last.result = "CANCELLED"
    /\ Len(pie_menu_tags) = 8
    /\ pie_config_available_tags_index < Len(pie_config_available_tags)
    /\ ~already_in_pie(pie_config_available_tags[pie_config_available_tags_index + 1])

\* C11: add-to-pie run for a tag that is already in pie_menu_tags, or while
\* pie_menu_tags holds 8 entries, ends CANCELLED with a report and leaves
\* pie_menu_tags as it was (content, order and length).
C11_AddToPieRefused ==
    [][(last'.op = "add_to_pie" /\ AddTagToPieConfigPoll /\ AddTagToPieConfig) =>
          LET tag == pie_config_available_tags[pie_config_available_tags_index + 1]
              duplicate == \E i \in 1..Len(pie_menu_tags) : pie_menu_tags[i] = tag
          IN (duplicate \/ Len(pie_menu_tags) = 8) =>
                /\ last'.result = "CANCELLED"
                /\ last'.report \in {"INFO", "WARNING"}
                /\ pie_menu_tags' = pie_menu_tags]_vars

\* Add-to-pie was refused for a tag that is already in a list with room left.
C11_Witness ==
    /\ last.op = "add_to_pie" /\ last.result = "CANCELLED" /\ last.report = "INFO"
    /\ 2 <= Len(pie_menu_tags) /\ Len(pie_menu_tags) < 8
    /\ pie_config_available_tags_index < Len(pie_config_available_tags)
    /\ already_in_pie(pie_config_available_tags[pie_config_available_tags_index + 1])

\* C12: move-pie-tag UP while the active index is 0, or DOWN while it is the
\* last index, leaves pie_menu_tags and the active index as they were; the
\* operator tests the index before it calls move and ends normally.
C12_MoveAtBoundary ==
    [][last'.op = "move_pie_tag" => \A d \in {"UP", "DOWN"} :
          (/\ MovePieTag(d)
           /\ \/ d = "UP" /\ active_pie_tag_index = 0
              \/ d = "DOWN" /\ active_pie_tag_index = Len(pie_menu_tags) - 1) =>
                /\ pie_menu_tags' = pie_menu_tags
                /\ active_pie_tag_index' = active_pie_tag_index
                /\ ~last'.moved
                /\ last'.result = IF MovePieTagPoll THEN "FINISHED" ELSE "POLL_FAILED"]_vars

\* DOWN was pressed on the last of several rows and nothing was moved.
C12_Witness ==
    /\ last.op = "move_pie_tag" /\ last.mode = "DOWN" /\ ~last.moved
    /\ Len(pie_menu_tags) >= 2
    /\ active_pie_tag_index = Len(pie_menu_tags) - 1

\* C22: in every state reached from an empty pie list with active index 0 by
\* add-to-pie, remove-from-pie and move-pie-tag, active_pie_tag_index is at
\* least 0 and below the length of pie_menu_tags when the list is not empty,
\* and is 0 when the list is empty.
C22_ActiveIndexInBounds ==
    IF pie_menu_tags = <<>>
    THEN active_pie_tag_index = 0
    ELSE 0 <= active_pie_tag_index /\ active_pie_tag_index < Len(pie_menu_tags)

\* The last row of a list of tags added in order was removed, and the active
\* index now points at the new last row.
C22_Witness ==
    /\ last.op = "remove_from_pie" /\ last.result = "FINISHED"
    /\ Len(pie_menu_tags) >= 2
    /\ pie_menu_tags = SubSeq(get_all_tags_in_file(props), 1, Len(pie_menu_tags))
    /\ active_pie_tag_index = Len(pie_menu_tags) - 1

\* C23: move-pie-tag run with the active index inside the list and not at the
\* boundary of its direction swaps the active entry with its neighbour in that
\* direction: the list keeps its length, the two entries trade places, every
\* other entry stays where it was, and the active index follows the tag it
\* pointed at.
C23_MoveSwapsNeighbours ==
    [][last'.op = "move_pie_tag" => \A d \in {"UP", "DOWN"} :
          (/\ MovePieTag(d)
           /\ 0 <= active_pie_tag_index /\ active_pie_tag_index < Len(pie_menu_tags)
           /\ IF d = "UP" THEN active_pie_tag_index > 0
              ELSE active_pie_tag_index < Len(pie_menu_tags) - 1) =>
                LET i == active_pie_tag_index + 1
                    j == IF d = "UP" THEN i - 1 ELSE i + 1
                IN /\ Len(pie_menu_tags') = Len(pie_menu_tags)
                   /\ pie_menu_tags'[j] = pie_menu_tags[i]
                   /\ pie_menu_tags'[i] = pie_menu_tags[j]
                   /\ \A x \in 1..Len(pie_menu_tags) \ {i, j} :
                         pie_menu_tags'[x] = pie_menu_tags[x]
                   /\ active_pie_tag_index' + 1 = j
                   /\ pie_menu_tags'[active_pie_tag_index' + 1] = pie_menu_tags[i]
                   /\ last'.result = "FINISHED"]_vars

\* A row in the middle of a list of at least three was moved up: the list is
\* no longer in the order the tags were added in.
C23_Witness ==
    /\ last.op = "move_pie_tag" /\ last.mode = "UP" /\ last.moved
    /\ Len(pie_menu_tags) >= 3
    /\ 0 < active_pie_tag_index /\ active_pie_tag_index < Len(pie_menu_tags) - 1
    /\ pie_menu_tags # SubSeq(get_all_tags_in_file(props), 1, Len(pie_menu_tags))

(* ---------------------------------------------------------------------- *)
(* Properties of the helpers called directly (under SpecHelpers)           *)
(* ---------------------------------------------------------------------- *)
\* C13: for every raw name whose canonical form (strip, then every space
\* replaced by an underscore) is not empty, the canonical form of the canonical
\* form is the canonical form, and add, remove and toggle do the same to the
\* same objects whether they are given the raw name or its canonical form.
C13_CanonicalIdempotent ==
    LET x == new_tag_name
        c == replace_space(strip(x))
    IN c # <<>> =>
        /\ replace_space(strip(c)) = c
        /\ \A objects \in SUBSET Objects :
              /\ add_tag_to_objects(props, objects, x) = add_tag_to_objects(props, objects, c)
              /\ remove_tag_from_objects(props, objects, x)
                    = remove_tag_from_objects(props, objects, c)
              /\ toggle_tag_on_objects(props, objects, x)
                    = toggle_tag_on_objects(props, objects, c)

\* A name with an interior space was added: the key stored has an underscore
\* that the raw name does not have.
C13_Witness ==
    LET c == sanitize(new_tag_name)
    IN /\ last.op = "call_add" /\ last.objects # {}
       /\ c # <<>> /\ c # new_tag_name
       /\ \E i \in 1..Len(c) : c[i] = "_"
       /\ \A i \in 1..Len(new_tag_name) : new_tag_name[i] # "_"
       /\ \A o \in last.objects : full_tag_name(c) \in DOMAIN props[o]

\* C15: add_tag_to_objects, remove_tag_from_objects and toggle_tag_on_objects
\* called with a name that is empty or only whitespace end with an
\* EmptyNameError outcome, not with a normal return.
C15_BlankNameFails ==
    (last.op \in {"call_add", "call_remove", "call_toggle"} /\ strip(new_tag_name) = <<>>) =>
        last.result = "EmptyNameError"

C21_BlankNameChangesNothing ==
    [][\A objects \in SUBSET Objects :
          (\/ /\ strip(new_tag_name) = <<>>
              /\ \/ CallAddTag(objects)
                 \/ CallRemoveTag(objects)
                 \/ CallToggleTag(objects)
           \/ objects = {} /\ CallToggleTag(objects)) =>
                props' = props]_vars

\* toggle was called with a whitespace-only name on objects that carry tags,
\* and the file's properties are all still there.
C21_Witness ==
    /\ last.op = "call_toggle" /\ last.objects = Objects
    /\ new_tag_name # <<>> /\ strip(new_tag_name) = <<>>
    /\ props = DocLegacy

(* ---------------------------------------------------------------------- *)
(* Property of the active-object observer (under SpecObserver)             *)
(* ---------------------------------------------------------------------- *)
\* C20: each run of msgbus_activelayer_observer with an active object that
\* differs from the global last_active_object ends without raising, stores the
\* active object in last_active_object and requests a redraw; a run with the
\* same active object returns and leaves last_active_object as it was.
C20_ObserverTracksActive ==
    [][msgbus_activelayer_observer =>
          /\ last'.result = "RETURNED"
          /\ IF active # last_active_object
             THEN last_active_object' = active /\ redraw_requested'
             ELSE last_active_object' = last_active_object]_vars

====
